---- MODULE Spec2Model ----
(***************************************************************************)
(* Model of src-tauri/src/search/deltas.rs: the versioned delta search     *)
(* index (MetaStorage version ledger, Deltas::reindex_project,             *)
(* Deltas::index_session, index_session, index_delta, search).             *)
(***************************************************************************)
EXTENDS Integers, Sequences, FiniteSets, Bags, TLC

(***************************************************************************)
(* Bounds of the model                                                     *)
(***************************************************************************)
\* events of one behaviour: API calls that write the index, injected I/O
\* errors, crashes and releases that raise CURRENT_VERSION
MaxEvents == 3

(***************************************************************************)
(* Program constants and small helpers                                     *)
(***************************************************************************)
CURRENT_VERSION == 3

\* Option::None
None == -1

\* Option::unwrap_or
UnwrapOr(o, d) == IF o = None THEN d ELSE o

Projects == {"P1", "P2"}
Sessions == {"s1", "s2", "s3", "s4"}
Paths    == {"f1", "f2"}

\* the project that owns a session (history backend)
ProjectOf(s) == IF s = "s4" THEN "P2" ELSE "P1"

\* repo.revwalk() from the project's head, Sort::TIME: newest first
Walk(p) == IF p = "P1" THEN <<"s3", "s2", "s1">> ELSE <<"s4">>

SeqToSet(q) == {q[k] : k \in 1..Len(q)}

RECURSIVE Concat(_)
\* concatenation of a sequence of sequences
Concat(qq) == IF qq = <<>> THEN <<>> ELSE Head(qq) \o Concat(Tail(qq))

(***************************************************************************)
(* Session data held by the history backend: deltas::list and              *)
(* sessions::list_files.  A session is of one of these kinds.              *)
(***************************************************************************)
Kinds == {"empty", "two_files", "bad_second"}

\* the histories a behaviour may start from: at most one session without
\* deltas and at most one whose replay fails; the session of P2 can be indexed
Histories == {h \in [Sessions -> Kinds] :
                 /\ h["s4"] = "two_files"
                 /\ Cardinality({s \in Sessions : h[s] = "empty"}) <= 1
                 /\ Cardinality({s \in Sessions : h[s] = "bad_second"}) <= 1}

Insert(off, cs) == [op |-> "insert", offset |-> off, chars |-> cs, len |-> Len(cs)]
Delete(off, n)  == [op |-> "delete", offset |-> off, chars |-> <<>>, len |-> n]

\* the timestamps of a session's deltas are offset by the session's age
SessionBase(s) == CASE s = "s1" -> 10 [] s = "s2" -> 20 [] s = "s3" -> 30 [] OTHER -> 20

Delta(s, t, ops) == [timestamp_ms |-> SessionBase(s) + t, operations |-> ops]

\* deltas::list(repo, project, reference, session.id, None): path -> Vec<Delta>
DeltasOf(s, kind) ==
    CASE kind = "empty" -> <<>>
      [] kind = "two_files" ->
            [p \in Paths |->
                IF p = "f1"
                THEN << Delta(s, 1, << Insert(3, <<" ", "c">>), Delete(3, 2) >>),
                        Delta(s, 3, << Delete(0, 2) >>) >>
                ELSE << Delta(s, 2, << Insert(0, <<"a">>) >>) >>]
      [] OTHER ->
            [p \in {"f1"} |->
                << Delta(s, 1, << Insert(0, <<"a">>) >>),
                   Delta(s, 2, << Insert(0, <<"c">>), Delete(5, 1) >>) >>]

\* sessions::list_files: the files' content before the session; f2 has none
FilesOf(s, kind) ==
    IF kind = "two_files" THEN [p \in {"f1"} |-> <<"a", " ", "b">>] ELSE <<>>

(***************************************************************************)
(* MetaStorage: the version ledger, one file per (project, session)        *)
(***************************************************************************)
DigitChars == <<"0", "1", "2", "3", "4", "5", "6", "7", "8", "9">>

RECURSIVE U64ToString(_)
\* u64::to_string
U64ToString(n) ==
    IF n < 10 THEN << DigitChars[n + 1] >>
    ELSE U64ToString(n \div 10) \o << DigitChars[(n % 10) + 1] >>

DigitValue(c) == IF \E k \in 1..10 : DigitChars[k] = c
                 THEN (CHOOSE k \in 1..10 : DigitChars[k] = c) - 1
                 ELSE None

RECURSIVE ParseAcc(_, _)
ParseAcc(cs, acc) ==
    IF cs = <<>> THEN acc
    ELSE IF DigitValue(Head(cs)) = None THEN None
    ELSE ParseAcc(Tail(cs), acc * 10 + DigitValue(Head(cs)))

\* str::parse::<u64>().ok()
ParseU64(cs) == IF cs = <<>> THEN None ELSE ParseAcc(cs, 0)

\* the content of a missing file
NoFile == << "missing" >>

Keys == {<<ProjectOf(s), s>> : s \in Sessions}

(***************************************************************************)
(* State Replayer: deltas::Operation::apply on the file's Vec<char>        *)
(***************************************************************************)
\* one operation on the text: [ok, text]; an out-of-range offset is an error
ApplyOperation(text, o) ==
    IF o.op = "insert"
    THEN IF o.offset > Len(text)
         THEN [ok |-> FALSE, text |-> text]
         ELSE [ok |-> TRUE,
               text |-> SubSeq(text, 1, o.offset) \o o.chars
                        \o SubSeq(text, o.offset + 1, Len(text))]
    ELSE IF o.offset + o.len > Len(text)
         THEN [ok |-> FALSE, text |-> text]
         ELSE [ok |-> TRUE,
               text |-> SubSeq(text, 1, o.offset)
                        \o SubSeq(text, o.offset + o.len + 1, Len(text))]

RECURSIVE ApplyOperations(_, _)
\* the loop over delta.operations: stops at the first operation that fails
ApplyOperations(text, ops) ==
    IF ops = <<>> THEN [ok |-> TRUE, text |-> text]
    ELSE LET r == ApplyOperation(text, Head(ops))
         IN  IF r.ok THEN ApplyOperations(r.text, Tail(ops)) ELSE r

(***************************************************************************)
(* Change Extractor: TextDiff::from_words and the filter over the changes  *)
(***************************************************************************)
IsSpace(c) == c = " "

RECURSIVE WordsAcc(_, _, _)
WordsAcc(cs, cur, acc) ==
    IF cs = <<>> THEN (IF cur = <<>> THEN acc ELSE Append(acc, cur))
    ELSE IF cur = <<>> \/ IsSpace(Head(cs)) = IsSpace(cur[1])
         THEN WordsAcc(Tail(cs), Append(cur, Head(cs)), acc)
         ELSE WordsAcc(Tail(cs), << Head(cs) >>, Append(acc, cur))

\* the tokens of from_words: maximal runs of whitespace and of non-whitespace
Words(cs) == WordsAcc(cs, <<>>, <<>>)

RECURSIVE LcsLen(_, _)
LcsLen(a, b) ==
    IF a = <<>> \/ b = <<>> THEN 0
    ELSE IF Head(a) = Head(b) THEN 1 + LcsLen(Tail(a), Tail(b))
    ELSE LET x == LcsLen(Tail(a), b)
             y == LcsLen(a, Tail(b))
         IN  IF x >= y THEN x ELSE y

RECURSIVE DiffTokens(_, _)
\* the Delete and Insert tokens of a shortest edit script, in diff order
\* (Equal tokens are dropped by the filter_map)
DiffTokens(a, b) ==
    IF a = <<>> THEN b
    ELSE IF b = <<>> THEN a
    ELSE IF Head(a) = Head(b) THEN DiffTokens(Tail(a), Tail(b))
    ELSE IF LcsLen(Tail(a), b) >= LcsLen(a, Tail(b))
         THEN << Head(a) >> \o DiffTokens(Tail(a), b)
         ELSE << Head(b) >> \o DiffTokens(a, Tail(b))

\* variant: the Equal tokens are not dropped, the new text is indexed
Changes_new_text(old, new) == new
\* the flattened change string of index_delta
Changes(old, new) == Concat(DiffTokens(Words(old), Words(new)))

(***************************************************************************)
(* index_delta                                                             *)
(***************************************************************************)
\* the document of one delta, and the file text after it
\* [ok, text, doc]: ok is FALSE when an operation cannot be applied
index_delta(version, project_id, session_id, file_text, file_path, i, delta) ==
    LET r == ApplyOperations(file_text, delta.operations)
    IN  [ok   |-> r.ok,
         text |-> r.text,
         doc  |-> [version      |-> version,
                   index        |-> i,
                   session_id   |-> session_id,
                   file_path    |-> file_path,
                   project_id   |-> project_id,
                   timestamp_ms |-> delta.timestamp_ms,
                   diff         |-> Changes(file_text, r.text)]]

(***************************************************************************)
(* search: the query string, QueryParser::parse_query, TopDocs             *)
(***************************************************************************)
\* the tokens of a query string
Tok(t, f, v, w, lo, hi) == [t |-> t, f |-> f, v |-> v, w |-> w, lo |-> lo, hi |-> hi]
\* a word, searched in the default fields diff and file_path
Term(v, w)       == Tok("term", "", v, w, 0, 0)
\* field:"value"
FieldStr(f, v)   == Tok("field", f, v, <<>>, 0, 0)
\* field:"number"
FieldNum(f, n)   == Tok("num", f, "", <<>>, n, n)
\* field:[lo TO hi}
FieldRange(f, lo, hi) == Tok("range", f, "", <<>>, lo, hi)
AndTok == Tok("and", "", "", <<>>, 0, 0)
OrTok  == Tok("or", "", "", <<>>, 0, 0)
LP     == Tok("lp", "", "", <<>>, 0, 0)
RP     == Tok("rp", "", "", <<>>, 0, 0)

\* format!("version:\"{}\" AND project_id:\"{}\" AND timestamp_ms:[{} TO {}} AND ({})")
FormatQuery(cur, q) ==
    << FieldNum("version", ParseU64(U64ToString(cur))), AndTok,
       FieldStr("project_id", q.project_id), AndTok,
       FieldRange("timestamp_ms", q.range.start, q.range.end), AndTok,
       LP >> \o q.q \o << RP >>

\* the indexed terms of a text field: its words, whitespace left out
TextTerms(cs) == {w \in SeqToSet(Words(cs)) : ~IsSpace(w[1])}

\* whether document d matches one leaf of the query
LeafMatches(tok, d) ==
    CASE tok.t = "term"  -> tok.w \in TextTerms(d.diff) \/ tok.v = d.file_path
      [] tok.t = "field" -> (tok.f = "project_id" /\ tok.v = d.project_id)
                            \/ (tok.f = "file_path" /\ tok.v = d.file_path)
      [] tok.t = "num"   -> (tok.f = "version" /\ tok.lo = d.version)
                            \/ (tok.f = "timestamp_ms" /\ tok.lo = d.timestamp_ms)
      [] tok.t = "range" -> /\ tok.f = "timestamp_ms"
                            /\ tok.lo <= d.timestamp_ms
                            /\ d.timestamp_ms < tok.hi
      [] OTHER -> FALSE

SyntaxError == [ok |-> FALSE, val |-> FALSE, rest |-> <<>>]

RECURSIVE ParseOr(_, _), ParseOrRest(_, _, _), ParseAnd(_, _), ParseAndRest(_, _, _),
          ParseAtom(_, _)
\* the grammar of the query parser, evaluated on document d:
\*   or := and (OR and)*, and := atom (AND atom)*, atom := ( or ) | leaf
\* AND binds tighter than OR
ParseAtom(ts, d) ==
    IF ts = <<>> THEN SyntaxError
    ELSE IF Head(ts).t = "lp"
         THEN LET r == ParseOr(Tail(ts), d)
              IN  IF r.ok /\ r.rest # <<>> /\ Head(r.rest).t = "rp"
                  THEN [ok |-> TRUE, val |-> r.val, rest |-> Tail(r.rest)]
                  ELSE SyntaxError
    ELSE IF Head(ts).t \in {"term", "field", "num", "range"}
         THEN [ok |-> TRUE, val |-> LeafMatches(Head(ts), d), rest |-> Tail(ts)]
    ELSE SyntaxError

ParseAndRest(ts, d, acc) ==
    IF ts # <<>> /\ Head(ts).t = "and"
    THEN LET a == ParseAtom(Tail(ts), d)
         IN  IF a.ok THEN ParseAndRest(a.rest, d, acc /\ a.val) ELSE SyntaxError
    ELSE [ok |-> TRUE, val |-> acc, rest |-> ts]

ParseAnd(ts, d) ==
    LET a == ParseAtom(ts, d)
    IN  IF a.ok THEN ParseAndRest(a.rest, d, a.val) ELSE SyntaxError

ParseOrRest(ts, d, acc) ==
    IF ts # <<>> /\ Head(ts).t = "or"
    THEN LET a == ParseAnd(Tail(ts), d)
         IN  IF a.ok THEN ParseOrRest(a.rest, d, acc \/ a.val) ELSE SyntaxError
    ELSE [ok |-> TRUE, val |-> acc, rest |-> ts]

ParseOr(ts, d) ==
    LET a == ParseAnd(ts, d)
    IN  IF a.ok THEN ParseOrRest(a.rest, d, a.val) ELSE SyntaxError

\* parse_query(..)?: the whole string must be one query
QueryMatches(ts, d) ==
    LET r == ParseOr(ts, d) IN r.ok /\ r.rest = <<>> /\ r.val

\* a document the syntax is checked on; its fields do not matter
AnyDoc == [version |-> 0, index |-> 0, session_id |-> "", file_path |-> "",
           project_id |-> "", timestamp_ms |-> 0, diff |-> <<>>]

QueryParses(ts) ==
    LET r == ParseOr(ts, AnyDoc) IN r.ok /\ r.rest = <<>>

\* the documents of the generation that match, with their multiplicity
Matching(gen, ts) ==
    LET ds == {d \in BagToSet(gen) : QueryMatches(ts, d)}
    IN  [d \in ds |-> gen[d]]

MaxTs(b) == CHOOSE t \in {d.timestamp_ms : d \in DOMAIN b} :
                \A d \in DOMAIN b : d.timestamp_ms <= t

RECURSIVE Ranked(_)
\* order_by_u64_field(timestamp_ms): highest first; documents with the same
\* timestamp come in any order
Ranked(b) ==
    IF DOMAIN b = {} THEN { <<>> }
    ELSE UNION { { <<d>> \o r : r \in Ranked(b (-) SetToBag({d})) } :
                 d \in {x \in DOMAIN b : x.timestamp_ms = MaxTs(b)} }

\* variant: the offset of the request is not applied
Window_no_offset(r, limit, offset) ==
    SubSeq(r, 1, IF limit < Len(r) THEN limit ELSE Len(r))
\* TopDocs::with_limit(limit).and_offset(offset)
Window(r, limit, offset) ==
    SubSeq(r, offset + 1, IF offset + limit < Len(r) THEN offset + limit ELSE Len(r))

\* the SearchResult of a document
ToResult(d) == [project_id |-> d.project_id, session_id |-> d.session_id,
                file_path |-> d.file_path, index |-> d.index]

\* pub fn search: the result lists the call can return
SearchResults(gen, cur, q) ==
    { [k \in 1..Len(w) |-> ToResult(w[k])] :
        w \in { Window(r, q.limit, UnwrapOr(q.offset, 0)) :
                r \in Ranked(Matching(gen, FormatQuery(cur, q))) } }


(***************************************************************************)
(* State                                                                   *)
(***************************************************************************)
VARIABLES
    repo,       \* history backend: the kind of data of every session
    bump,       \* releases since the first run: CURRENT_VERSION was raised so often
    ledger,     \* MetaStorage: indexes/meta/<project>/<session> -> file content
    committed,  \* generation directory v<version> -> the committed documents
    pending,    \* documents added to the IndexWriter and not yet committed
    pc,         \* position of the caller: idle, walk, is_list, is_index, meta_set
    op,         \* the API call in progress, or the last one
    again,      \* the call repeats the call before it, with nothing in between
    walk_pos,   \* reindex_project: position of the walker in Walk(project)
    sess,       \* index_session: session.id
    remaining,  \* index_session: files of deltas.into_iter() not yet indexed
    cur_file,   \* index_session: file_path of the running inner loop, "" if none
    i,          \* index_session: enumerate() index of the next delta of cur_file
    file_text,  \* index_session: the file's text after the deltas indexed so far
    result,     \* what the last API call returned: none, Ok, Err, crashed
    error,      \* the kind of the last error raised in the call
    logged,     \* reindex_project: sessions whose error went to log::error!
    called,     \* reindex_project: sessions index_session was called for
    at_call,    \* ledger, committed and pending when the call started
    query,      \* the SearchQuery of the last search
    results,    \* Vec<SearchResult> of the last search
    events,     \* writing API calls, injected errors, crashes, releases and
                \* changes of the running caller so far
    other       \* pc .. at_call of the caller on the other clone, while it waits

durable  == <<repo, ledger, committed>>
loopvars == <<sess, remaining, cur_file, i, file_text>>
walkvars == <<walk_pos, logged, called>>
callvars == <<op, again, at_call, query, results>>
vars == <<repo, bump, ledger, committed, pending, pc, op, again, walk_pos, sess,
          remaining, cur_file, i, file_text, result, error, logged, called,
          at_call, query, results, events, other>>

Versions == CURRENT_VERSION .. (CURRENT_VERSION + MaxEvents)

\* variant: the second release lowers CURRENT_VERSION
Cur_lowered == IF bump = 0 THEN CURRENT_VERSION + 1 ELSE CURRENT_VERSION
\* CURRENT_VERSION of the running release: "should not decrease"
Cur == CURRENT_VERSION + bump

Key(s) == <<ProjectOf(s), s>>

\* MetaStorage::get
MetaStorage_get(led, project_id, session_hash) ==
    LET meta == led[<<project_id, session_hash>>]
    IN  IF meta = NoFile THEN None ELSE ParseU64(meta)

\* MetaStorage::set
MetaStorage_set(led, project_id, session_hash, version) ==
    [led EXCEPT ![<<project_id, session_hash>>] = U64ToString(version)]

\* variant: the walk does not read the ledger
WalkVersion_zero(led, s) == 0
\* reindex_project: the version the walk compares with CURRENT_VERSION
WalkVersion(led, s) == UnwrapOr(MetaStorage_get(led, ProjectOf(s), s), 0)

\* variant: the walk indexes every session, whatever its version
NeedsIndex_always(version, cur) == TRUE
\* variant: the walk indexes only the sessions the ledger does not record
NeedsIndex_unrecorded(version, cur) == version = 0
\* reindex_project: `if version == CURRENT_VERSION { continue; }`
NeedsIndex(version, cur) == version # cur

\* variant: the early return for a session without deltas is missing
is_empty_never(deltas) == FALSE
\* index_session: `if deltas.is_empty() { return Ok(()); }`
is_empty(deltas) == DOMAIN deltas = {}

\* variant: the ledger is written also when index_session failed
AfterInner_set_anyway(ok) == "meta_set"
\* Deltas::index_session: `index_session(...)?` then meta_storage.set
AfterInner(ok) == IF ok THEN "meta_set" ELSE "return"

\* variant: the error of index_session leaves reindex_project
OnIndexError_abort == "idle"
\* reindex_project: `if let Err(e) = self.index_session(..) { log::error!(..) }`
OnIndexError == "walk"

Snapshot == [ledger |-> ledger, committed |-> committed, pending |-> pending]

NoOp == [name |-> "none", arg |-> ""]

SearchQuery(q, project_id, limit, offset, start, end) ==
    [q |-> q, project_id |-> project_id, limit |-> limit, offset |-> offset,
     range |-> [start |-> start, end |-> end]]

NoQuery == SearchQuery(<<>>, "", 0, None, 0, 0)

\* the free-text strings a caller passes:  a  |  c  |  c) OR (project_id:"P2"
\*   |  a) OR (a  |  (
QueryStrings ==
    { << Term("a", <<"a">>) >>,
      << Term("c", <<"c">>) >>,
      << Term("c", <<"c">>), RP, OrTok, LP, FieldStr("project_id", "P2") >>,
      << Term("a", <<"a">>), RP, OrTok, LP, Term("a", <<"a">>) >>,
      << LP >> }

\* the searches of the caller: every string in each project; in P1 the word
\* "a" with a small window, and the strings  a  and  a) OR (a  with a range
\* that starts and ends at a timestamp
SearchQueries ==
    { SearchQuery(q, p, 10, None, 0, 100) : q \in QueryStrings, p \in Projects }
    \cup { SearchQuery(<< Term("a", <<"a">>) >>, "P1", 2, o, 0, 100) :
              o \in {None, 1} }
    \cup { SearchQuery(q, "P1", 10, None, 22, 23) :
              q \in { << Term("a", <<"a">>) >>,
                      << Term("a", <<"a">>), RP, OrTok, LP, Term("a", <<"a">>) >> } }

CanFail == events < MaxEvents

\* what a caller holds of its own: its position, its locals, what it returned
Registers ==
    [pc |-> pc, op |-> op, again |-> again, walk_pos |-> walk_pos, sess |-> sess,
     remaining |-> remaining, cur_file |-> cur_file, i |-> i,
     file_text |-> file_text, result |-> result, error |-> error,
     logged |-> logged, called |-> called, at_call |-> at_call]

\* a caller that has not called anything yet
IdleRegisters ==
    [pc |-> "idle", op |-> NoOp, again |-> FALSE, walk_pos |-> 0, sess |-> "",
     remaining |-> {}, cur_file |-> "", i |-> 0, file_text |-> <<>>,
     result |-> "none", error |-> "none", logged |-> {}, called |-> {},
     at_call |-> [ledger |-> [k \in Keys |-> NoFile],
                  committed |-> [v \in Versions |-> EmptyBag],
                  pending |-> EmptyBag]]

\* variant: the writer is not behind a mutex
HoldsWriterLock_never(p) == FALSE
\* `&mut self.writer.lock().unwrap()`: a caller at is_list has called
\* index_session and takes the lock with its next step; the guard lives until
\* the free function index_session has returned
HoldsWriterLock(p) == p = "is_index"

\* variant: the searcher also sees what the writer has not committed
Searcher_uncommitted == committed[Cur] (+) pending
\* self.reader.reload()?; self.reader.searcher(): the documents committed to
\* the generation of CURRENT_VERSION up to now
Searcher == committed[Cur]

Init ==
    /\ repo \in Histories
    /\ bump = 0
    /\ ledger = [k \in Keys |-> NoFile]
    /\ committed = [v \in Versions |-> EmptyBag]
    /\ pending = EmptyBag
    /\ pc = "idle"
    /\ op = NoOp
    /\ again = FALSE
    /\ walk_pos = 0
    /\ sess = ""
    /\ remaining = {}
    /\ cur_file = ""
    /\ i = 0
    /\ file_text = <<>>
    /\ result = "none"
    /\ error = "none"
    /\ logged = {}
    /\ called = {}
    /\ at_call = [ledger |-> ledger, committed |-> committed, pending |-> pending]
    /\ query = NoQuery
    /\ results = <<>>
    /\ events = 0
    /\ other = IdleRegisters

\* the start of every API call
BeginCall(name, arg) ==
    /\ pc = "idle"
    /\ events < MaxEvents
    /\ events' = events + 1
    /\ again' = (op = [name |-> name, arg |-> arg] /\ result \in {"Ok", "Err"})
    /\ op' = [name |-> name, arg |-> arg]
    /\ at_call' = Snapshot
    /\ result' = "none"
    /\ error' = "none"
    /\ query' = NoQuery
    /\ results' = <<>>
    /\ logged' = {}
    /\ called' = {}

ResetLoop ==
    /\ sess' = ""
    /\ remaining' = {}
    /\ cur_file' = ""
    /\ i' = 0
    /\ file_text' = <<>>

(***************************************************************************)
(* Deltas::reindex_project                                                 *)
(***************************************************************************)
\* lines 98-106: the head is found and the walker is set up
ReindexProject(p) ==
    /\ BeginCall("reindex_project", p)
    /\ pc' = "walk"
    /\ walk_pos' = 1
    /\ UNCHANGED <<durable, other, bump, pending, loopvars>>

InWalk == pc = "walk" /\ walk_pos <= Len(Walk(op.arg))

\* the walk is over: log::info!, Ok(())
WalkDone ==
    /\ pc = "walk"
    /\ walk_pos > Len(Walk(op.arg))
    /\ pc' = "idle"
    /\ result' = "Ok"
    /\ walk_pos' = 0
    /\ UNCHANGED <<durable, other, bump, pending, loopvars, error, logged, called,
                   callvars, events>>

\* the `?` of the walk: the error leaves reindex_project
WalkAbort(e) ==
    /\ CanFail
    /\ events' = events + 1
    /\ pc' = "idle"
    /\ result' = "Err"
    /\ error' = e
    /\ walk_pos' = 0
    /\ UNCHANGED <<durable, other, bump, pending, loopvars, logged, called, callvars>>

\* `oid?`, repo.find_commit(oid)?, sessions::id_from_commit(repo, &commit)?
WalkHistoryError ==
    /\ InWalk
    /\ WalkAbort("history")

\* self.meta_storage.get(&project.id, &session_id)?
WalkLedgerReadError ==
    /\ InWalk
    /\ WalkAbort("ledger_read")

\* sessions::Session::from_commit(repo, &commit)?, after the version check
WalkSessionError ==
    /\ InWalk
    /\ NeedsIndex(WalkVersion(ledger, Walk(op.arg)[walk_pos]), Cur)
    /\ WalkAbort("session")

\* `if version == CURRENT_VERSION { continue; }`
WalkSkip ==
    /\ InWalk
    /\ ~NeedsIndex(WalkVersion(ledger, Walk(op.arg)[walk_pos]), Cur)
    /\ walk_pos' = walk_pos + 1
    /\ UNCHANGED <<durable, other, bump, pending, pc, loopvars, result, error, logged,
                   called, callvars, events>>

\* self.index_session(repo, project, &session) is called
WalkIndex ==
    /\ InWalk
    /\ NeedsIndex(WalkVersion(ledger, Walk(op.arg)[walk_pos]), Cur)
    /\ pc' = "is_list"
    /\ sess' = Walk(op.arg)[walk_pos]
    /\ called' = called \cup {Walk(op.arg)[walk_pos]}
    /\ UNCHANGED <<durable, other, bump, pending, walk_pos, remaining, cur_file, i,
                   file_text, result, error, logged, callvars, events>>

(***************************************************************************)
(* Deltas::index_session, index_session                                    *)
(***************************************************************************)
\* Deltas::index_session called by the user of the API
IndexSession(s) ==
    /\ BeginCall("index_session", s)
    /\ pc' = "is_list"
    /\ sess' = s
    /\ UNCHANGED <<durable, other, bump, pending, walk_pos, remaining, cur_file, i,
                   file_text>>

\* Deltas::index_session returns to its caller
OuterReturns(ok, e) ==
    /\ error' = (IF ok THEN error ELSE e)
    /\ ResetLoop
    /\ IF op.name = "reindex_project"
       THEN /\ logged' = (IF ok THEN logged ELSE logged \cup {sess})
            /\ pc' = (IF ok THEN "walk" ELSE OnIndexError)
            /\ walk_pos' = (IF ok \/ OnIndexError = "walk" THEN walk_pos + 1 ELSE 0)
            /\ result' = (IF ok \/ OnIndexError = "walk" THEN result ELSE "Err")
       ELSE /\ pc' = "idle"
            /\ result' = (IF ok THEN "Ok" ELSE "Err")
            /\ UNCHANGED <<logged, walk_pos>>
    /\ UNCHANGED <<called, callvars>>

\* the free function index_session returns to Deltas::index_session
InnerReturns(ok, e) ==
    IF AfterInner(ok) = "meta_set"
    THEN /\ pc' = "meta_set"
         /\ remaining' = {}
         /\ cur_file' = ""
         /\ i' = 0
         /\ file_text' = <<>>
         /\ UNCHANGED <<sess, walkvars, callvars, result, error>>
    ELSE OuterReturns(FALSE, e)

\* find_reference, deltas::list or sessions::list_files fails
ListDeltasError ==
    /\ pc = "is_list"
    /\ ~HoldsWriterLock(other.pc)
    /\ CanFail
    /\ events' = events + 1
    /\ InnerReturns(FALSE, "list")
    /\ UNCHANGED <<durable, other, bump, pending>>

\* `if deltas.is_empty() { return Ok(()); }`
ListDeltasEmpty ==
    /\ pc = "is_list"
    /\ ~HoldsWriterLock(other.pc)
    /\ is_empty(DeltasOf(sess, repo[sess]))
    /\ InnerReturns(TRUE, "none")
    /\ UNCHANGED <<durable, other, bump, pending, events>>

\* variant: every file starts from the content of the first file listed
InitialText_first_file(files, f) ==
    IF DOMAIN files = {} THEN <<>> ELSE files[CHOOSE x \in DOMAIN files : TRUE]
\* files.get(&file_path).map(|f| f.as_str()).unwrap_or("").chars().collect()
InitialText(files, f) == IF f \in DOMAIN files THEN files[f] ELSE <<>>

\* the deltas and the files of the session are loaded
ListDeltas ==
    /\ pc = "is_list"
    /\ ~HoldsWriterLock(other.pc)
    /\ ~is_empty(DeltasOf(sess, repo[sess]))
    /\ pc' = "is_index"
    /\ remaining' = DOMAIN DeltasOf(sess, repo[sess])
    /\ cur_file' = ""
    /\ i' = 0
    /\ file_text' = <<>>
    /\ UNCHANGED <<durable, other, bump, pending, sess, walkvars, callvars, result,
                   error, events>>

\* `for (file_path, deltas) in deltas.into_iter()`: the next file, in the
\* order of the map; file_text starts from files.get(&file_path) or ""
StartFile(f) ==
    /\ pc = "is_index"
    /\ cur_file = ""
    /\ f \in remaining
    /\ cur_file' = f
    /\ remaining' = remaining \ {f}
    /\ i' = 0
    /\ file_text' = InitialText(FilesOf(sess, repo[sess]), f)
    /\ UNCHANGED <<durable, other, bump, pending, pc, sess, walkvars, callvars, result,
                   error, events>>

CurDelta == DeltasOf(sess, repo[sess])[cur_file][i + 1]

CurIndexed == index_delta(Cur, ProjectOf(sess), sess, file_text, cur_file, i, CurDelta)

\* index_delta(..)? of the delta i of cur_file: the document is added
IndexDelta ==
    /\ pc = "is_index"
    /\ cur_file # ""
    /\ CurIndexed.ok
    /\ pending' = pending (+) SetToBag({CurIndexed.doc})
    /\ IF i + 1 = Len(DeltasOf(sess, repo[sess])[cur_file])
       THEN cur_file' = "" /\ i' = 0 /\ file_text' = <<>>
       ELSE cur_file' = cur_file /\ i' = i + 1 /\ file_text' = CurIndexed.text
    /\ UNCHANGED <<durable, other, bump, pc, sess, remaining, walkvars, callvars,
                   result, error, events>>

\* index_delta(..)?: an operation of the delta cannot be applied
IndexDeltaReplayError ==
    /\ pc = "is_index"
    /\ cur_file # ""
    /\ ~CurIndexed.ok
    /\ InnerReturns(FALSE, "replay")
    /\ UNCHANGED <<durable, other, bump, pending, events>>

\* index_delta(..)?: writer.add_document(doc)? fails
IndexDeltaAddError ==
    /\ pc = "is_index"
    /\ cur_file # ""
    /\ CurIndexed.ok
    /\ CanFail
    /\ events' = events + 1
    /\ InnerReturns(FALSE, "add_document")
    /\ UNCHANGED <<durable, other, bump, pending>>

\* writer.commit()?: everything the writer holds becomes visible
Commit ==
    /\ pc = "is_index"
    /\ cur_file = ""
    /\ remaining = {}
    /\ committed' = [committed EXCEPT ![Cur] = @ (+) pending]
    /\ pending' = EmptyBag
    /\ InnerReturns(TRUE, "none")
    /\ UNCHANGED <<repo, other, ledger, bump, events>>

\* writer.commit()? fails: nothing becomes visible; the writer keeps or
\* drops what it holds
CommitError ==
    /\ pc = "is_index"
    /\ cur_file = ""
    /\ remaining = {}
    /\ CanFail
    /\ events' = events + 1
    /\ \E keep \in BOOLEAN : pending' = (IF keep THEN pending ELSE EmptyBag)
    /\ InnerReturns(FALSE, "commit")
    /\ UNCHANGED <<durable, other, bump>>

\* self.meta_storage.set(&project.id, &session.id, CURRENT_VERSION)?
MetaSet ==
    /\ pc = "meta_set"
    /\ ledger' = MetaStorage_set(ledger, ProjectOf(sess), sess, Cur)
    /\ OuterReturns(TRUE, "none")
    /\ UNCHANGED <<repo, other, committed, bump, pending, events>>

\* meta_storage.set fails: the file is not written
MetaSetError ==
    /\ pc = "meta_set"
    /\ CanFail
    /\ events' = events + 1
    /\ OuterReturns(FALSE, "ledger_write")
    /\ UNCHANGED <<durable, other, bump, pending>>

(***************************************************************************)
(* The process                                                             *)
(***************************************************************************)
\* the process dies between two steps and is started again (Deltas::at):
\* what the writer held and had not committed is lost
Crash ==
    /\ CanFail
    /\ pc # "idle" \/ pending # EmptyBag
    /\ events' = events + 1
    /\ pc' = "idle"
    /\ pending' = EmptyBag
    /\ ResetLoop
    /\ walk_pos' = 0
    /\ result' = "crashed"
    /\ error' = "none"
    /\ again' = FALSE
    /\ op' = [name |-> "crash", arg |-> ""]
    /\ logged' = {}
    /\ called' = {}
    /\ at_call' = [ledger |-> ledger, committed |-> committed, pending |-> EmptyBag]
    /\ UNCHANGED <<durable, other, bump, query, results>>

\* a release with a higher CURRENT_VERSION is started: Deltas::at opens the
\* generation directory of the new version
Upgrade ==
    /\ pc = "idle"
    /\ events < MaxEvents
    /\ events' = events + 1
    /\ bump' = bump + 1
    /\ pending' = EmptyBag
    /\ again' = FALSE
    /\ op' = [name |-> "upgrade", arg |-> ""]
    /\ result' = "none"
    /\ error' = "none"
    /\ logged' = {}
    /\ called' = {}
    /\ query' = NoQuery
    /\ results' = <<>>
    /\ at_call' = [ledger |-> ledger, committed |-> committed, pending |-> EmptyBag]
    /\ UNCHANGED <<durable, other, pc, loopvars, walk_pos>>

\* Deltas::search: parse_query(..)?, reader.reload()?, searcher.search(..)
Search(q) ==
    /\ pc = "idle"
    /\ op.name # "search"
    /\ op' = [name |-> "search", arg |-> ""]
    /\ again' = FALSE
    /\ query' = q
    /\ at_call' = Snapshot
    /\ logged' = {}
    /\ called' = {}
    /\ IF QueryParses(FormatQuery(Cur, q))
       THEN /\ result' = "Ok"
            /\ error' = "none"
            /\ results' \in SearchResults(Searcher, Cur, q)
       ELSE /\ result' = "Err"
            /\ error' = "query_syntax"
            /\ results' = <<>>
    /\ UNCHANGED <<durable, other, bump, pending, pc, loopvars, walk_pos, events>>

\* the steps of reindex_project and index_session without an injected error
IndexStep ==
    \/ \E p \in Projects : ReindexProject(p)
    \/ WalkDone
    \/ WalkSkip
    \/ WalkIndex
    \/ \E s \in Sessions : IndexSession(s)
    \/ ListDeltasEmpty
    \/ ListDeltas
    \/ \E f \in Paths : StartFile(f)
    \/ IndexDelta
    \/ IndexDeltaReplayError
    \/ Commit
    \/ MetaSet

\* the injected I/O errors and the crash
Fault ==
    \/ WalkHistoryError
    \/ WalkLedgerReadError
    \/ WalkSessionError
    \/ ListDeltasError
    \/ IndexDeltaAddError
    \/ CommitError
    \/ MetaSetError
    \/ Crash

Next ==
    \/ IndexStep
    \/ Fault
    \/ Upgrade

NextSearch ==
    \/ IndexStep
    \/ Upgrade
    \/ \E q \in SearchQueries : Search(q)

Spec == Init /\ [][Next]_vars

(***************************************************************************)
(* Two callers, each on its own clone of one Deltas                        *)
(***************************************************************************)
\* the scheduler runs the other caller: the clones share the ledger, the
\* index and the writer behind its mutex, a caller's locals are its own
Switch ==
    /\ events < MaxEvents
    /\ events' = events + 1
    /\ other' = Registers
    /\ pc' = other.pc
    /\ op' = other.op
    /\ again' = other.again
    /\ walk_pos' = other.walk_pos
    /\ sess' = other.sess
    /\ remaining' = other.remaining
    /\ cur_file' = other.cur_file
    /\ i' = other.i
    /\ file_text' = other.file_text
    /\ result' = other.result
    /\ error' = other.error
    /\ logged' = other.logged
    /\ called' = other.called
    /\ at_call' = other.at_call
    /\ UNCHANGED <<durable, bump, pending, query, results>>

NextConcurrent ==
    \/ IndexStep
    \/ Switch

\* reindex_project and index_session called from two threads, no I/O errors
SpecConcurrent == Init /\ [][NextConcurrent]_vars

(***************************************************************************)
(* index_delta on its own: any text, any delta                             *)
(***************************************************************************)
\* the texts a file holds before the first delta: "", "abc def", "hello world"
AbcDef == <<"a", "b", "c", " ", "d", "e", "f">>
HelloWorld ==
    <<"h", "e", "l", "l", "o", " ", "w", "o", "r", "l", "d">>
DiffTexts == { <<>>, AbcDef, HelloWorld }

\* the operations of one delta: none, or one insertion or deletion
DiffDeltas ==
    { <<>> } \cup
    { << o >> : o \in { Insert(4, <<"x", "y", "z", " ">>), Insert(0, <<"a">>),
                        Insert(1, <<" ">>),
                        Delete(5, 6), Delete(0, 1), Delete(3, 1) } }

InitDiff ==
    /\ repo = [s \in Sessions |-> "two_files"]
    /\ bump = 0
    /\ ledger = [k \in Keys |-> NoFile]
    /\ committed = [v \in Versions |-> EmptyBag]
    /\ pending = EmptyBag
    /\ pc = "index_delta"
    /\ op = [name |-> "index_session", arg |-> "s1"]
    /\ again = FALSE
    /\ walk_pos = 0
    /\ sess = "s1"
    /\ remaining = {}
    /\ cur_file = "f1"
    /\ i = 0
    /\ file_text \in DiffTexts
    /\ result = "none"
    /\ error = "none"
    /\ logged = {}
    /\ called = {}
    /\ at_call = [ledger |-> ledger, committed |-> committed, pending |-> pending]
    /\ query = NoQuery
    /\ results = <<>>
    /\ events = 0
    /\ other = IdleRegisters

\* index_delta(index, writer, session, project, &mut file_text, file_path, i,
\* delta) returns Ok: the document is added, file_text holds the new text
IndexDeltaOf(ops) ==
    LET r == index_delta(Cur, ProjectOf(sess), sess, file_text, cur_file, i,
                         [timestamp_ms |-> i, operations |-> ops])
    IN  /\ pc = "index_delta"
        /\ events < MaxEvents
        /\ events' = events + 1
        /\ r.ok
        /\ pending' = pending (+) SetToBag({r.doc})
        /\ file_text' = r.text
        /\ i' = i + 1
        /\ UNCHANGED <<durable, other, bump, pc, sess, remaining, cur_file, walkvars,
                       callvars, result, error>>

NextDiff == \E ops \in DiffDeltas : IndexDeltaOf(ops)

\* index_delta applied to every text with every delta
SpecDiff == InitDiff /\ [][NextDiff]_vars

\* the histories that are searched: s1 has deltas in two files
InitSearch == Init /\ repo["s1"] = "two_files"

\* the index is written without I/O errors and searched with every query
SpecSearch == InitSearch /\ [][NextSearch]_vars

(***************************************************************************)
(* Properties                                                              *)
(***************************************************************************)
\* the version the ledger records for a session, None when it records none
LedgerVersion(led, s) == MetaStorage_get(led, ProjectOf(s), s)

\* (file_path, index) of every document of the session's batch
BatchKeys(s) ==
    UNION { { <<f, k - 1>> : k \in 1..Len(DeltasOf(s, repo[s])[f]) } :
            f \in DOMAIN DeltasOf(s, repo[s]) }

\* copies of the document (s, f, k) in a bag of documents
CountDocs(b, s, f, k) ==
    LET ds == {d \in DOMAIN b :
                 d.session_id = s /\ d.file_path = f /\ d.index = k}
    IN  IF ds = {} THEN 0 ELSE BagCardinality([d \in ds |-> b[d]])

\* the whole batch of the session is committed in generation v
BatchCommitted(v, s) ==
    \A fk \in BatchKeys(s) : CountDocs(committed[v], s, fk[1], fk[2]) >= 1

\* a call of reindex_project has returned
WalkReturned ==
    pc = "idle" /\ op.name = "reindex_project" /\ result \in {"Ok", "Err"}

\* C1: the documents of a session are visible only as complete batches: in
\* every generation every document of a session's batch is committed as often
\* as every other one, so no document of a session whose index_session failed
\* partway is committed, also not by the commit of a later session.
C1_OnlyCompleteBatchesVisible ==
    \A v \in Versions : \A s \in Sessions : \A a, b \in BatchKeys(s) :
        CountDocs(committed[v], s, a[1], a[2]) = CountDocs(committed[v], s, b[1], b[2])

\* C2: in every state, also after an error or a crash between two steps, a
\* session the ledger records at version v has no deltas or has its whole
\* batch committed in generation v: the ledger is written after the commit.
C2_LedgerImpliesCommitted ==
    \A s \in Sessions :
        LedgerVersion(ledger, s) # None =>
            \/ is_empty(DeltasOf(s, repo[s]))
            \/ BatchCommitted(LedgerVersion(ledger, s), s)

\* the process crashed between the commit of s2 and its ledger write, after
\* s3 was indexed and recorded
C2_Witness ==
    /\ result = "crashed"
    /\ LedgerVersion(ledger, "s3") = Cur
    /\ ~is_empty(DeltasOf("s3", repo["s3"]))
    /\ BatchCommitted(Cur, "s3")
    /\ ~is_empty(DeltasOf("s2", repo["s2"]))
    /\ BatchCommitted(Cur, "s2")
    /\ LedgerVersion(ledger, "s2") = None

\* C3: a failure of index_session does not end the walk: reindex_project
\* never returns the error of an index_session, and when it returns Ok every
\* session whose index_session failed has its ledger entry as before the
\* call, and every other session of the walk is at CURRENT_VERSION, indexed
\* by this walk if it was not at CURRENT_VERSION before.
C3_FailureIsolated ==
    WalkReturned =>
        /\ result = "Err" => error \in {"history", "ledger_read", "session"}
        /\ result = "Ok" =>
             \A s \in SeqToSet(Walk(op.arg)) :
                /\ s \in logged => ledger[Key(s)] = at_call.ledger[Key(s)]
                /\ s \notin logged =>
                     /\ LedgerVersion(ledger, s) = Cur
                     /\ LedgerVersion(at_call.ledger, s) # Cur => s \in called

\* of three sessions the second failed replay; the first and the third are
\* indexed and recorded
C3_Witness ==
    /\ WalkReturned
    /\ result = "Ok"
    /\ op.arg = "P1"
    /\ logged = {"s2"}
    /\ error = "replay"
    /\ \A s \in {"s1", "s3"} :
          /\ ~is_empty(DeltasOf(s, repo[s]))
          /\ LedgerVersion(at_call.ledger, s) = None
          /\ LedgerVersion(ledger, s) = Cur
          /\ BatchCommitted(Cur, s)

\* C4: a history-backend error on one session of the walk (commit not found,
\* session id not derived, session not parsed) is logged and the walk goes
\* on: reindex_project does not return it.
C4_HistoryErrorContinues ==
    (WalkReturned /\ error \in {"history", "session"}) => result = "Ok"

\* C5: a ledger I/O error on one session, on the read of reindex_project or
\* on the write of index_session, does not end the walk, and the entries of
\* the other sessions are not changed by it.
C5_LedgerErrorContinues ==
    (WalkReturned /\ error \in {"ledger_read", "ledger_write"}) => result = "Ok"

\* every session of the walk was recorded at CURRENT_VERSION when the call
\* started
AllCurrentAtCall ==
    \A s \in SeqToSet(Walk(op.arg)) : LedgerVersion(at_call.ledger, s) = Cur

\* C6 as stated: after a second reindex_project in a row the documents (held
\* by the writer and committed) and every ledger entry are as they were after
\* the first call, for any history.
C6_ReindexTwiceChangesNothing ==
    (WalkReturned /\ again) => Snapshot = at_call

\* C6 amended: a second reindex_project in a row changes no document and no
\* ledger entry when the first call left every session of the walk recorded
\* at CURRENT_VERSION.
C6_ReindexTwiceWhenCurrent ==
    (WalkReturned /\ again /\ AllCurrentAtCall) => Snapshot = at_call

\* the second walk in a row over P1, all of whose sessions were indexed and
\* recorded by the first
C6_Witness ==
    /\ WalkReturned
    /\ again
    /\ op.arg = "P1"
    /\ result = "Ok"
    /\ AllCurrentAtCall
    /\ \E s \in SeqToSet(Walk("P1")) :
          ~is_empty(DeltasOf(s, repo[s])) /\ BatchCommitted(Cur, s)

\* C7: reindex_project calls index_session only for sessions whose recorded
\* version (0 when the entry is absent or unparsable) differs from
\* CURRENT_VERSION, and a walk that returns Ok has called it for every such
\* session of the walk.
C7_OnlyStaleSessionsIndexed ==
    op.name = "reindex_project" =>
        /\ \A s \in called : UnwrapOr(LedgerVersion(at_call.ledger, s), 0) # Cur
        /\ (WalkReturned /\ result = "Ok") =>
              called = {s \in SeqToSet(Walk(op.arg)) :
                          UnwrapOr(LedgerVersion(at_call.ledger, s), 0) # Cur}

\* the walk is run again after a failure on s2 alone: only s2 is processed
C7_Witness ==
    /\ WalkReturned
    /\ again
    /\ op.arg = "P1"
    /\ result = "Ok"
    /\ called = {"s2"}
    /\ LedgerVersion(at_call.ledger, "s1") = Cur
    /\ LedgerVersion(at_call.ledger, "s3") = Cur

\* C8: no step lowers the version the ledger records for a session or
\* removes an entry, CURRENT_VERSION not decreasing between releases.
C8_LedgerMonotone ==
    [][\A s \in Sessions :
          /\ ledger[Key(s)] # NoFile => ledger'[Key(s)] # NoFile
          /\ LedgerVersion(ledger', s) >= LedgerVersion(ledger, s)]_vars

\* a session recorded under an older release is recorded again at the
\* raised CURRENT_VERSION
C8_Witness ==
    \E s \in Sessions :
        /\ LedgerVersion(at_call.ledger, s) # None
        /\ LedgerVersion(at_call.ledger, s) < LedgerVersion(ledger, s)
        /\ LedgerVersion(ledger, s) = Cur

\* C9: index_session on a session without deltas adds no document and makes
\* no commit (what the writer holds stays uncommitted); it returns Ok and
\* records CURRENT_VERSION unless listing the deltas or writing the ledger
\* fails; reindex_project does not call index_session for it afterwards.
C9_EmptySessionRecorded ==
    /\ (pc = "idle" /\ op.name = "index_session" /\ repo[op.arg] = "empty"
          /\ result \in {"Ok", "Err"}) =>
            /\ committed = at_call.committed
            /\ pending = at_call.pending
            /\ result = "Ok" => LedgerVersion(ledger, op.arg) = Cur
            /\ result = "Err" => /\ error \in {"list", "ledger_write"}
                                 /\ ledger = at_call.ledger
    /\ op.name = "reindex_project" =>
          \A s \in called :
             ~(repo[s] = "empty" /\ LedgerVersion(at_call.ledger, s) = Cur)

\* index_session of a session without deltas returned Ok while the writer
\* held uncommitted documents
C9_Witness ==
    /\ pc = "idle"
    /\ op.name = "index_session"
    /\ repo[op.arg] = "empty"
    /\ result = "Ok"
    /\ at_call.pending # EmptyBag
    /\ LedgerVersion(at_call.ledger, op.arg) = None
    /\ LedgerVersion(ledger, op.arg) = Cur

\* C10: a search with project_id = P returns no SearchResult of another
\* project, whatever the free-text query string.
C10_SearchScoped ==
    op.name = "search" =>
        \A k \in 1..Len(results) : results[k].project_id = query.project_id

\* the committed documents of the searched generation a SearchResult stands for
ResultDocs(r) == {d \in DOMAIN committed[Cur] : ToResult(d) = r}

\* C11: a search with range [T1, T2) returns only documents with
\* T1 <= timestamp_ms < T2, whatever the free-text query string.
C11_RangeRespected ==
    (op.name = "search" /\ result = "Ok") =>
        \A k \in 1..Len(results) : \A d \in ResultDocs(results[k]) :
            /\ query.range.start <= d.timestamp_ms
            /\ d.timestamp_ms < query.range.end

\* C11 for the query strings that are one word: the range is half-open
C11_RangeOfPlainQuery ==
    (op.name = "search" /\ result = "Ok" /\ Len(query.q) = 1) =>
        \A k \in 1..Len(results) : \A d \in ResultDocs(results[k]) :
            /\ query.range.start <= d.timestamp_ms
            /\ d.timestamp_ms < query.range.end

\* a document at T1 is returned while a matching document at T2 is committed
C11_PlainWitness ==
    /\ op.name = "search" /\ result = "Ok" /\ Len(query.q) = 1
    /\ \E k \in 1..Len(results) : \E d \in ResultDocs(results[k]) :
           d.timestamp_ms = query.range.start
    /\ \E d \in DOMAIN committed[Cur] :
           /\ d.timestamp_ms = query.range.end
           /\ d.project_id = query.project_id
           /\ <<"a">> \in TextTerms(d.diff)

\* copies of the SearchResult r in the last result list
CountResults(r) == Cardinality({k \in 1..Len(results) : results[k] = r})

\* documents of the bag b that a SearchResult r stands for
CountBacking(b, r) ==
    LET ds == {d \in DOMAIN b : ToResult(d) = r}
    IN  IF ds = {} THEN 0 ELSE BagCardinality([d \in ds |-> b[d]])

\* C12: every generation directory holds only documents written under its
\* version; the generations older than CURRENT_VERSION are left as they were;
\* a search returns only documents of the generation of CURRENT_VERSION, each
\* at most as often as that generation holds it; a reindex_project that
\* returns Ok has called index_session for every session of its walk whose
\* ledger entry is a version other than CURRENT_VERSION.
C12_VersionGatedSearch ==
    /\ \A v \in Versions : \A d \in DOMAIN committed[v] : d.version = v
    /\ \A v \in Versions : v < Cur => committed[v] = at_call.committed[v]
    /\ (op.name = "search" /\ result = "Ok") =>
          \A k \in 1..Len(results) :
              CountResults(results[k]) <=
                  CountBacking([d \in {x \in DOMAIN committed[Cur] : x.version = Cur}
                                   |-> committed[Cur][d]], results[k])
    /\ (WalkReturned /\ result = "Ok") =>
          \A s \in SeqToSet(Walk(op.arg)) :
              LedgerVersion(at_call.ledger, s) \notin {None, Cur} => s \in called

\* after a release the sessions were indexed again and a search returns their
\* new documents, the old ones still lying in the generation of the old version
C12_Witness ==
    /\ op.name = "search"
    /\ result = "Ok"
    /\ bump = 1
    /\ Len(results) >= 1
    /\ LedgerVersion(ledger, results[1].session_id) = Cur
    /\ CountBacking(committed[CURRENT_VERSION], results[1]) >= 1
    /\ CountBacking(committed[Cur], results[1]) >= 1

\* documents the query of the last search matches among the committed ones
CommittedMatches == Matching(committed[Cur], FormatQuery(Cur, query))

\* C13: a search returns only committed documents, each at most as often as
\* it is committed, and never one the writer holds uncommitted; when the
\* window of the request is wide enough for all matches, it returns every
\* committed matching document of every session whose index_session has
\* returned Ok (its ledger entry is CURRENT_VERSION).
C13_Freshness ==
    (op.name = "search" /\ result = "Ok") =>
        /\ \A k \in 1..Len(results) :
              CountResults(results[k]) <= CountBacking(committed[Cur], results[k])
        /\ LET cm == CommittedMatches
           IN  (query.offset = None /\ BagCardinality(cm) <= query.limit) =>
                  \A d \in DOMAIN cm :
                      LedgerVersion(ledger, d.session_id) = Cur =>
                          CountResults(ToResult(d)) = cm[d]

\* a search after index_session returned Ok for s4 returns its documents
\* while the writer holds an uncommitted document that matches the query too
C13_Witness ==
    /\ op.name = "search"
    /\ result = "Ok"
    /\ query.offset = None
    /\ BagCardinality(CommittedMatches) <= query.limit
    /\ \E d \in DOMAIN CommittedMatches :
          LedgerVersion(ledger, d.session_id) = Cur /\ CountResults(ToResult(d)) >= 1
    /\ \E d \in DOMAIN pending :
          /\ QueryMatches(FormatQuery(Cur, query), d)
          /\ CountBacking(committed[Cur], ToResult(d)) = 0

\* timestamp_ms of the committed document a SearchResult stands for
ResultTs(r) == (CHOOSE d \in ResultDocs(r) : TRUE).timestamp_ms

\* the documents of the bag cm that are more recent than t, and those that
\* are not older than t
MatchesAfter(cm, t) ==
    LET ds == {d \in DOMAIN cm : d.timestamp_ms > t}
    IN  IF ds = {} THEN 0 ELSE BagCardinality([d \in ds |-> cm[d]])
MatchesFrom(cm, t) ==
    LET ds == {d \in DOMAIN cm : d.timestamp_ms >= t}
    IN  IF ds = {} THEN 0 ELSE BagCardinality([d \in ds |-> cm[d]])

\* offset of the last search, 0 when the request has none
QueryOffset == IF query.offset = None THEN 0 ELSE query.offset

\* C14: the results come most recent first; the result at position k is the
\* match number offset + k in the order of timestamp_ms (every more recent
\* match is before it, ties in any order); the list holds the matches left
\* after the first `offset`, at most `limit` of them.
C14_OrderedWindow ==
    (op.name = "search" /\ result = "Ok") =>
        LET cm == CommittedMatches
            m == BagCardinality(cm)
            left == IF m > QueryOffset THEN m - QueryOffset ELSE 0
            ts == [k \in 1..Len(results) |-> ResultTs(results[k])]
        IN  /\ Len(results) = IF left < query.limit THEN left ELSE query.limit
            /\ \A k \in 1..(Len(results) - 1) : ts[k] >= ts[k + 1]
            /\ \A k \in 1..Len(results) :
                  /\ MatchesAfter(cm, ts[k]) <= QueryOffset + k - 1
                  /\ MatchesFrom(cm, ts[k]) >= QueryOffset + k

\* a search with offset 1 and limit 2 over four or more matches returns the
\* second and the third most recent, which differ in timestamp_ms
C14_Witness ==
    /\ op.name = "search"
    /\ result = "Ok"
    /\ query.offset = 1
    /\ query.limit = 2
    /\ BagCardinality(CommittedMatches) >= 4
    /\ Len(results) = 2
    /\ ResultTs(results[1]) > ResultTs(results[2])
    /\ MatchesAfter(CommittedMatches, ResultTs(results[1])) = 1

\* the texts of the two examples
AbcXyzDef == <<"a", "b", "c", " ", "x", "y", "z", " ", "d", "e", "f">>
Hello == <<"h", "e", "l", "l", "o">>
World == <<"w", "o", "r", "l", "d">>

\* t is a substring of s
Contains(s, t) ==
    \E k \in 1..(Len(s) - Len(t) + 1) : SubSeq(s, k, k + Len(t) - 1) = t

\* equal tokens are dropped, changed ones kept: nothing is kept when the text
\* did not change; all of the new text is kept when the old one is empty, all
\* of the old text when the new one is empty; "abc def" -> "abc xyz def"
FlatteningRules(old, new, diff) ==
    /\ old = new => diff = <<>>
    /\ old = <<>> => diff = new
    /\ new = <<>> => diff = old
    /\ (old = AbcDef /\ new = AbcXyzDef) =>
          /\ Contains(diff, <<"x", "y", "z">>)
          /\ ~Contains(diff, <<"a", "b", "c">>)
          /\ ~Contains(diff, <<"d", "e", "f">>)

\* C15 as stated: the flattened change string keeps the inserted and deleted
\* tokens and drops the equal ones; "abc def" -> "abc xyz def" gives a string
\* that contains "xyz" and neither "abc" nor "def"; "hello world" -> "hello"
\* gives "world".
C15_FlatteningAsStated ==
    [][ pc = "index_delta" =>
          \A d \in {x \in DOMAIN pending' : x \notin DOMAIN pending} :
              /\ FlatteningRules(file_text, file_text', d.diff)
              /\ (file_text = HelloWorld /\ file_text' = Hello) =>
                    d.diff = World ]_vars

\* C15 amended: as above, but "hello world" -> "hello" gives " world", the
\* deleted whitespace token followed by the deleted word.
C15_FlatteningKeepsWhitespace ==
    [][ pc = "index_delta" =>
          \A d \in {x \in DOMAIN pending' : x \notin DOMAIN pending} :
              /\ FlatteningRules(file_text, file_text', d.diff)
              /\ (file_text = HelloWorld /\ file_text' = Hello) =>
                    d.diff = <<" ">> \o World ]_vars

\* the first delta of a file that held "hello world" left "hello" and a
\* document whose diff is " world"
C15_Witness ==
    /\ pc = "index_delta"
    /\ i = 1
    /\ file_text = Hello
    /\ \E d \in DOMAIN pending : d.index = 0 /\ d.diff = <<" ">> \o World

\* C16: while a call of index_session is between taking the writer and its
\* return from the free function (the commit, or the failure), no step of
\* the caller on the other clone adds a document to the writer or commits,
\* and the two callers are never both in that part.
C16_SingleWriter ==
    [][ /\ (other.pc = "is_index" /\ other' = other) =>
              (pending' = pending /\ committed' = committed)
        /\ ~(pc' = "is_index" /\ other'.pc = "is_index") ]_vars

\* one caller has added the first document of s4 and not committed; the
\* other has called index_session for s1 and waits for the writer
C16_Witness ==
    /\ other.pc = "is_index"
    /\ other.op = [name |-> "index_session", arg |-> "s4"]
    /\ other.i > 0
    /\ pending # EmptyBag
    /\ pc = "is_list"
    /\ op = [name |-> "index_session", arg |-> "s1"]
    /\ repo["s1"] = "two_files"

RECURSIVE TextAfter(_, _, _)
\* the text of file f of session s after its first k deltas
TextAfter(s, f, k) ==
    IF k = 0
    THEN IF f \in DOMAIN FilesOf(s, repo[s]) THEN FilesOf(s, repo[s])[f] ELSE <<>>
    ELSE ApplyOperations(TextAfter(s, f, k - 1),
                         DeltasOf(s, repo[s])[f][k].operations).text

\* the document of delta k (counted from 0) of file f of session s
ExpectedDoc(s, f, k) ==
    [version      |-> Cur,
     index        |-> k,
     session_id   |-> s,
     file_path    |-> f,
     project_id   |-> ProjectOf(s),
     timestamp_ms |-> DeltasOf(s, repo[s])[f][k + 1].timestamp_ms,
     diff         |-> Changes(TextAfter(s, f, k), TextAfter(s, f, k + 1))]

\* what the running or last call has brought into the generation, the
\* documents the writer held when the call started left out
CommittedByCall == (committed[Cur] (-) at_call.committed[Cur]) (-) at_call.pending

\* C17: an index_session that returns Ok for a session with deltas has added
\* exactly one document for each delta: delta k of a file has index k and the
\* diff between the file's text after deltas 0..k-1 and after delta k, the
\* text before delta 0 being the file's content before the session, or empty.
C17_OneDocumentPerDelta ==
    (pc = "idle" /\ op.name = "index_session" /\ result = "Ok"
       /\ repo[op.arg] # "empty") =>
        /\ \A fk \in BatchKeys(op.arg) :
              CopiesIn(ExpectedDoc(op.arg, fk[1], fk[2]), CommittedByCall) = 1
        /\ BagCardinality(CommittedByCall) = Cardinality(BatchKeys(op.arg))

\* index_session returned Ok for a session with two files, one of them with
\* content before the session and with a first delta that changes nothing
C17_Witness ==
    /\ pc = "idle" /\ op.name = "index_session" /\ result = "Ok"
    /\ repo[op.arg] = "two_files"
    /\ TextAfter(op.arg, "f1", 0) # <<>>
    /\ TextAfter(op.arg, "f2", 0) = <<>>
    /\ \E d \in DOMAIN CommittedByCall :
          d.file_path = "f1" /\ d.index = 0 /\ d.diff = <<>>
    /\ \E d \in DOMAIN CommittedByCall :
          d.file_path = "f1" /\ d.index = 1 /\ d.diff # <<>>
    /\ \E d \in DOMAIN CommittedByCall :
          d.file_path = "f2" /\ d.index = 0 /\ d.diff # <<>>

\* C18: every generation holds at most one committed document for each
\* (project id, session id, file path, delta index), whatever calls were made.
C18_AtMostOneDocument ==
    \A v \in Versions : \A d \in DOMAIN committed[v] :
        CountDocs(committed[v], d.session_id, d.file_path, d.index) <= 1

\* the sessions with deltas whose batch the walk of a caller has committed
CommittedByWalk(r) ==
    IF r.op.name # "reindex_project" THEN {}
    ELSE {s \in r.called \ r.logged :
            /\ repo[s] # "empty"
            /\ ~(r.pc \in {"is_list", "is_index"} /\ r.sess = s)}

\* C19: two walks of reindex_project over the same project, one on each
\* clone, never both commit the batch of the same session.
C19_NoSessionCommittedByBothWalks ==
    (op.name = "reindex_project" /\ other.op = op) =>
        CommittedByWalk(Registers) \cap CommittedByWalk(other) = {}

====
